---- MODULE Spec2Model ----
(***************************************************************************)
(* State-machine model of the order-creation transaction, the order status *)
(* update, the idempotent payment processor and the Kafka consumer loop of *)
(* the ecomm-microservices repository.                                     *)
(*                                                                         *)
(* PostgreSQL runs at its default isolation level (READ COMMITTED): a      *)
(* transaction reads committed rows, its own writes stay invisible to the  *)
(* others until COMMIT, and an UPDATE takes a row lock held until the      *)
(* transaction ends.                                                       *)
(***************************************************************************)
EXTENDS Integers, Sequences, FiniteSets, Bags, TLC

(***************************************************************************)
(* Bounds of the model.                                                    *)
(***************************************************************************)
MaxStock == 1
MaxQty == 2
\* POST /process-payment requests started
MaxHttpCalls == 2
\* messages appended to topic order.created
MaxLog == 2
\* PUT /orders/:id/status requests started
MaxUpdates == 3
\* publish calls of the Kafka wrapper started
MaxPublishes == 2
\* restarts of the payments process
MaxRestarts == 1

\* ids of the rows of table products
Products == {1, 2}
\* ids a request may name that have no products row
UnknownIds == {3}
\* concurrent POST /orders requests
Requests == {"r1", "r2"}

\* products.price, in cents
Price(p) == 100 * p

\* req.user.id taken from the JWT of request r
UserOf(r) == IF r = "r1" THEN 7 ELSE 9

\* order ids the payments service is asked about
PayOrders == {1, 2}

\* the order_id of a POST /process-payment body, a JavaScript value written
\* as String() prints it: the numbers 1 and 2, and the string "01"
JsIds == {"1", "2", "01"}

\* PostgreSQL's integer input of a query parameter, which node-postgres
\* sends as text: leading zeros are accepted
PgInteger(v) == IF v = "2" THEN 2 ELSE 1

\* String(n) of an id column's value, a JavaScript number
StringOf(n) ==
    IF n \in 1..9 THEN <<"1", "2", "3", "4", "5", "6", "7", "8", "9">>[n] ELSE "0"
\* values the amount / total of a payment request takes (0 is falsy)
Amounts == {0, 100}
\* values of Date.now() while payments are decided
Times == {1, 2}
\* one processPayment call runs per HTTP request and per consumed message
HttpSlots == {"h"}
Slots == HttpSlots \cup {"k"}

\* payment-processor.js line 6: PAYMENT_FAILURE_RATE, default 6
FAILURE_RATE == 6

VARIABLES
    payments,    \* committed rows of table payments
    paySeq,      \* last value of the payments id sequence
    call,        \* per-slot state of processPayment
    payEvents,   \* bag of messages published to the payment.* topics
    lostSends,   \* payment.* sends that threw: set of <<topic, order id>>
    httpCalls,   \* POST /process-payment requests started so far
    topicLog,    \* topic order.created as the payments-group consumer sees it
    offset,      \* next position of topicLog the consumer processes
    payClient    \* per slot, the pooled client of its processPayment call

payVars == <<payments, paySeq, call, payEvents, lostSends, httpCalls, topicLog, offset,
             payClient>>

VARIABLES
    stock,       \* products.stock, committed: [Products -> Int]
    orders,      \* committed rows of table orders
    orderItems,  \* committed rows of table order_items
    orderSeq,    \* last value of the orders id sequence
    req,         \* per-request state of the POST /orders handler
    ordEvents,   \* messages published to order.created / order.updated
    upd,         \* state of the PUT /orders/:id/status handler
    updCount,    \* PUT /orders/:id/status requests started so far
    ordClient    \* per request, the pooled client of its POST /orders handler

updVars == <<upd, updCount>>

orderVars == <<stock, orders, orderItems, orderSeq, req, ordEvents, upd, updCount,
               ordClient>>

VARIABLES
    topicState,  \* the topic of the substrate's calls at the broker
    sub,         \* state of a subscribe call of the Kafka wrapper
    pub,         \* per caller, the state of its publish call of the Kafka wrapper
    producer,    \* producerInstance: null, or the producer and its connection
    pubCount,    \* publish calls started so far
    brokerLog    \* messages the broker acknowledged for the topic

VARIABLES
    consumers,   \* consumers the running subscribe call created that are connected
    member,      \* the payments-group consumer: whether it fetches, and from where
    committed,   \* the offset the broker stores for payments-group, 0 when none
    handled,     \* positions of brokerLog that were handed to the handler
    report,      \* what startOrderConsumer logged about the consumer
    restarts     \* restarts of the payments process so far

groupVars == <<consumers, member, committed, handled, report, restarts>>

kafkaVars == <<topicState, sub, pub, producer, pubCount, brokerLog, groupVars>>

vars == <<stock, orders, orderItems, orderSeq, req, ordEvents, upd, updCount, ordClient,
          payments, paySeq, call, payEvents, lostSends, httpCalls, topicLog, offset,
          payClient,
          topicState, sub, pub, producer, pubCount, brokerLog,
          consumers, member, committed, handled, report, restarts>>

(***************************************************************************)
(* The pooled database client of a handler                                 *)
(***************************************************************************)

\* a handler that has not taken a client from the pool
NoClient == [acquired |-> 0, released |-> 0, tx |-> "none", openAtRelease |-> FALSE]

\* orders.js line 35, payment-processor.js line 11: await db.connect()
connect(c) == [c EXCEPT !.acquired = @ + 1]

\* orders.js line 38, payment-processor.js line 14: BEGIN
Begin(c) == [c EXCEPT !.tx = "open"]

\* COMMIT or ROLLBACK: the transaction of the client, if any, is over
EndTx(c) == [c EXCEPT !.tx = IF @ = "none" THEN "none" ELSE "ended"]

\* a finally block that releases the client a second time
releaseTwice(c) ==
    [c EXCEPT !.released = @ + 2, !.openAtRelease = @ \/ c.tx = "open"]

\* orders.js line 156, payment-processor.js line 135: client.release() in
\* the finally block
release(c) ==
    [c EXCEPT !.released = @ + 1, !.openAtRelease = @ \/ c.tx = "open"]

(***************************************************************************)
(* POST /orders                                                            *)
(***************************************************************************)

\* request bodies: item lists, including the shapes validation rejects
\* (product_id 0 / quantity 0 stand for a missing field)
ItemShapes == [product_id : Products \cup UnknownIds \cup {0}, quantity : (-1)..MaxQty]

\* two items are what a repeated product id and two carts naming the same
\* products in opposite orders need
Bodies == UNION {[1..n -> ItemShapes] : n \in {0, 1, 2}}

NoDec == [p \in Products |-> 0]

\* what getUser of the orders service's gRPC client settles with: the
\* user, a NOT_FOUND error, or an error of an unreachable users service
LookupResults == {"found", "notfound", "unavailable"}

\* lines 41-48: the local variable user after the lookup: getUser's
\* response, or the { id: userId } the catch of line 44 puts in its place
UserAfterLookup(lookup) == IF lookup = "found" THEN "response" ELSE "fallback"

IdleReq == [pc |-> "idle", items |-> <<>>, user |-> "none", snap |-> NoDec, order |-> 0,
            total |-> 0, lines |-> <<>>, dec |-> NoDec, idx |-> 0, resp |-> "none"]

\* lines 18-30: the first validation error of a body, or "ok"
RECURSIVE ValidateFrom(_, _)
ValidateFrom(items, i) ==
    IF i > Len(items) THEN "ok"
    ELSE IF items[i].product_id = 0 \/ items[i].quantity = 0 THEN "400_item"
    ELSE IF items[i].quantity <= 0 THEN "400_qty"
    ELSE ValidateFrom(items, i + 1)

\* a validation that looks at the first item only
ValidateFirst(items) ==
    IF Len(items) = 0 THEN "400_empty"
    ELSE IF ValidateFrom(items, 1) # "ok" /\ ValidateFrom(<<items[1]>>, 1) = "ok" THEN "ok"
    ELSE ValidateFrom(items, 1)

Validate(items) ==
    IF Len(items) = 0 THEN "400_empty" ELSE ValidateFrom(items, 1)

\* lines 51-54: ids of the rows SELECT ... WHERE id IN (...) returns
SelectProducts(items) ==
    {p \in Products : \E i \in 1..Len(items) : items[i].product_id = p}

\* lines 71-83: the loop's first error, or "ok"
RECURSIVE CheckItems(_, _, _)
CheckItems(items, snap, i) ==
    IF i > Len(items) THEN "ok"
    ELSE IF items[i].product_id \notin SelectProducts(items) THEN "400_notfound"
    ELSE IF snap[items[i].product_id] < items[i].quantity THEN "400_stock"
    ELSE CheckItems(items, snap, i + 1)

\* lines 56-95: the outcome of the product and stock checks
CheckOutcome(items, snap) ==
    IF Cardinality(SelectProducts(items)) # Len(items) THEN "400_notfound"
    ELSE CheckItems(items, snap, 1)

\* lines 85-94: the order_items row built for item i
OrderLine(items, i) ==
    [line |-> i,
     product_id |-> items[i].product_id,
     quantity |-> items[i].quantity,
     unit_price |-> Price(items[i].product_id),
     subtotal |-> Price(items[i].product_id) * items[i].quantity]

\* a total that is the first item's subtotal
TotalOfFirst(items, i) ==
    IF i > Len(items) THEN 0
    ELSE OrderLine(items, i).subtotal

\* lines 68, 87: total accumulated over the items
RECURSIVE TotalOf(_, _)
TotalOf(items, i) ==
    IF i > Len(items) THEN 0
    ELSE OrderLine(items, i).subtotal + TotalOf(items, i + 1)

\* ROLLBACK: the transaction's uncommitted rows and row locks are dropped
Rollback(q) == [q EXCEPT !.lines = <<>>, !.dec = NoDec]

\* lines 12-38: validation, then connect and BEGIN
PostOrder(r, items) ==
    /\ req[r].pc = "idle"
    /\ IF Validate(items) # "ok"
       THEN req' = [req EXCEPT ![r].pc = "done", ![r].resp = Validate(items)]
       ELSE req' = [req EXCEPT ![r].pc = "begun", ![r].items = items]
    /\ ordClient' = [ordClient EXCEPT ![r] = IF Validate(items) # "ok" THEN NoClient
                                             ELSE Begin(connect(NoClient))]
    /\ UNCHANGED <<stock, orders, orderItems, orderSeq, ordEvents, payVars, updVars, kafkaVars>>

\* a failed check with part of the decrements written and kept
RejectOrderPartial(r, code, lookup) ==
    /\ req' = [req EXCEPT ![r] = [Rollback(@) EXCEPT !.pc = "done", !.resp = code,
                                                      !.snap = stock,
                                                      !.user = UserAfterLookup(lookup)]]
    /\ stock' = [p \in Products |->
                    IF p = req[r].items[1].product_id /\ stock[p] >= req[r].items[1].quantity
                    THEN stock[p] - req[r].items[1].quantity ELSE stock[p]]
    /\ ordClient' = [ordClient EXCEPT ![r] = release(EndTx(@))]
    /\ UNCHANGED <<orders, orderItems, orderSeq, ordEvents, payVars, updVars, kafkaVars>>

\* lines 57-58, 74-75, 79-82: ROLLBACK and answer 400
RejectOrder(r, code, lookup) ==
    /\ req' = [req EXCEPT ![r] = [Rollback(@) EXCEPT !.pc = "done", !.resp = code,
                                                      !.snap = stock,
                                                      !.user = UserAfterLookup(lookup)]]
    /\ ordClient' = [ordClient EXCEPT ![r] = release(EndTx(@))]
    /\ UNCHANGED <<stock, orders, orderItems, orderSeq, ordEvents, payVars, updVars, kafkaVars>>

\* lines 97-110: INSERT INTO orders ... RETURNING * (uncommitted; the id
\* sequence advances outside the transaction)
InsertOrder(r, lookup) ==
    /\ req' = [req EXCEPT ![r].pc = "writing", ![r].snap = stock, ![r].user = UserAfterLookup(lookup),
                          ![r].order = orderSeq + 1,
                          ![r].total = TotalOf(req[r].items, 1),
                          ![r].idx = 1]
    /\ orderSeq' = orderSeq + 1
    /\ UNCHANGED ordClient
    /\ UNCHANGED <<stock, orders, orderItems, ordEvents, payVars, updVars, kafkaVars>>

\* a lookup whose failure ends the request with 500
CheckStockLookupAborts(r, lookup) ==
    /\ req[r].pc = "begun"
    /\ IF lookup = "unavailable"
       THEN /\ req' = [req EXCEPT ![r] = [Rollback(@) EXCEPT !.pc = "done", !.resp = "500",
                                                            !.user = "none"]]
            /\ ordClient' = [ordClient EXCEPT ![r] = release(EndTx(@))]
            /\ UNCHANGED <<stock, orders, orderItems, orderSeq, ordEvents, payVars, updVars, kafkaVars>>
       ELSE IF CheckOutcome(req[r].items, stock) # "ok"
       THEN RejectOrder(r, CheckOutcome(req[r].items, stock), lookup)
       ELSE InsertOrder(r, lookup)

\* lines 40-110: user lookup (its rejection is caught at line 44 and its
\* result is not read again), SELECT of the products, the checks, and on
\* success the INSERT of the order
CheckStock(r, lookup) ==
    /\ req[r].pc = "begun"
    /\ IF CheckOutcome(req[r].items, stock) # "ok"
       THEN RejectOrder(r, CheckOutcome(req[r].items, stock), lookup)
       ELSE InsertOrder(r, lookup)

\* the product whose row the pending UPDATE of r needs
WantedRow(r) == req[r].items[req[r].idx].product_id

\* r waits in its UPDATE for a row lock
Writing(r) == req[r].pc = "writing" /\ req[r].idx <= Len(req[r].items)

\* another transaction holds the row lock of product p
LockedByOther(r, p) == \E o \in Requests \ {r} : req[o].dec[p] > 0

\* lines 113-126: one iteration: INSERT INTO order_items, then
\* UPDATE products SET stock = stock - $1 (waits for the row lock)
WriteItem(r) ==
    /\ Writing(r)
    /\ ~LockedByOther(r, WantedRow(r))
    /\ req' = [req EXCEPT
                 ![r].lines = Append(@, OrderLine(req[r].items, req[r].idx)),
                 ![r].dec[WantedRow(r)] = @ + req[r].items[req[r].idx].quantity,
                 ![r].idx = @ + 1]
    /\ UNCHANGED ordClient
    /\ UNCHANGED <<stock, orders, orderItems, orderSeq, ordEvents, payVars, updVars, kafkaVars>>

\* the rows a COMMIT of r adds to order_items
CommittedLines(r) ==
    {[order_id |-> req[r].order, line |-> l.line, product_id |-> l.product_id,
      quantity |-> l.quantity, unit_price |-> l.unit_price, subtotal |-> l.subtotal] :
        l \in {req[r].lines[i] : i \in 1..Len(req[r].lines)}}

\* a commit that stores the stock computed from the values read for the check
CommitFromSnapshot(r) ==
    /\ req[r].pc = "writing"
    /\ req[r].idx > Len(req[r].items)
    /\ stock' = [p \in Products |-> IF req[r].dec[p] > 0 THEN req[r].snap[p] - req[r].dec[p]
                                    ELSE stock[p]]
    /\ orders' = orders \cup {[id |-> req[r].order, user_id |-> UserOf(r),
                               total |-> req[r].total, status |-> "pending"]}
    /\ orderItems' = orderItems \cup CommittedLines(r)
    /\ req' = [req EXCEPT ![r].pc = "committed", ![r].dec = NoDec]
    /\ ordClient' = [ordClient EXCEPT ![r] = EndTx(@)]
    /\ UNCHANGED <<orderSeq, ordEvents, payVars, updVars, kafkaVars>>

\* line 128: COMMIT
Commit(r) ==
    /\ req[r].pc = "writing"
    /\ req[r].idx > Len(req[r].items)
    /\ stock' = [p \in Products |-> stock[p] - req[r].dec[p]]
    /\ orders' = orders \cup {[id |-> req[r].order, user_id |-> UserOf(r),
                               total |-> req[r].total, status |-> "pending"]}
    /\ orderItems' = orderItems \cup CommittedLines(r)
    /\ req' = [req EXCEPT ![r].pc = "committed", ![r].dec = NoDec]
    /\ ordClient' = [ordClient EXCEPT ![r] = EndTx(@)]
    /\ UNCHANGED <<orderSeq, ordEvents, payVars, updVars, kafkaVars>>

\* kafka-producer.js publishOrderCreated: the message sent
OrderCreatedEvent(r) ==
    [topic |-> "order.created", key |-> StringOf(req[r].order), order_id |-> req[r].order,
     user_id |-> UserOf(r), total |-> req[r].total, status |-> "pending"]

\* a publish that logs the rejection of the send and returns
publishSwallows(acked) == "return"

\* part_013 lines 162-177: publish awaits producer.send outside any try: it
\* returns when the broker acknowledged the message and throws the send's
\* rejection otherwise
publish(acked) == IF acked THEN "return" ELSE "throw"

\* kafka-producer.js lines 5-23: the catch logs and throws the error again
publishOrderCreated(acked) ==
    IF publish(acked) = "throw" THEN "throw" ELSE "return"

\* kafka-producer.js lines 25-42
publishOrderUpdated(acked) ==
    IF publish(acked) = "throw" THEN "throw" ELSE "return"

\* a failed publish that takes the committed order back
PublishCreatedUndo(r, ok) ==
    /\ req[r].pc = "committed"
    /\ IF ok
       THEN /\ ordEvents' = Append(ordEvents, OrderCreatedEvent(r))
            /\ req' = [req EXCEPT ![r].pc = "done", ![r].resp = "201"]
            /\ UNCHANGED <<stock, orders, orderItems>>
       ELSE /\ ordEvents' = ordEvents
            /\ req' = [req EXCEPT ![r].pc = "done", ![r].resp = "500"]
            /\ orders' = {o \in orders : o.id # req[r].order}
            /\ orderItems' = {l \in orderItems : l.order_id # req[r].order}
            /\ stock' = [p \in Products |->
                            stock[p] + Cardinality({l \in CommittedLines(r) :
                                                      l.product_id = p})]
    /\ ordClient' = [ordClient EXCEPT ![r] = IF ok THEN release(@) ELSE release(EndTx(@))]
    /\ UNCHANGED <<orderSeq, payVars, updVars, kafkaVars>>

\* lines 137-151: publish order.created, then answer 201; a publish that
\* throws reaches the catch of line 152 (ROLLBACK after COMMIT changes
\* nothing) and the request is answered 500
PublishCreated(r, ok) ==
    /\ req[r].pc = "committed"
    /\ ordEvents' = IF ok THEN Append(ordEvents, OrderCreatedEvent(r)) ELSE ordEvents
    /\ IF publishOrderCreated(ok) = "return"
       THEN req' = [req EXCEPT ![r].pc = "done", ![r].resp = "201"]
       ELSE req' = [req EXCEPT ![r].pc = "done", ![r].resp = "500"]
    /\ ordClient' = [ordClient EXCEPT ![r] = IF ok THEN release(@) ELSE release(EndTx(@))]
    /\ UNCHANGED <<stock, orders, orderItems, orderSeq, payVars, updVars, kafkaVars>>

\* a deadlock victim that publishes order.created for the order it rolled back
DeadlockAbortPublishes(r) ==
    /\ Writing(r)
    /\ \E o \in Requests \ {r} :
          /\ req[o].dec[WantedRow(r)] > 0
          /\ Writing(o)
          /\ req[r].dec[WantedRow(o)] > 0
    /\ req' = [req EXCEPT ![r] = [Rollback(@) EXCEPT !.pc = "done", !.resp = "500"]]
    /\ ordEvents' = Append(ordEvents, OrderCreatedEvent(r))
    /\ ordClient' = [ordClient EXCEPT ![r] = release(EndTx(@))]
    /\ UNCHANGED <<stock, orders, orderItems, orderSeq, payVars, updVars, kafkaVars>>

\* two transactions wait for each other's row lock: PostgreSQL aborts one
\* statement with a deadlock error, which reaches the catch of lines 152-154
DeadlockAbort(r) ==
    /\ Writing(r)
    /\ \E o \in Requests \ {r} :
          /\ req[o].dec[WantedRow(r)] > 0
          /\ Writing(o)
          /\ req[r].dec[WantedRow(o)] > 0
    /\ req' = [req EXCEPT ![r] = [Rollback(@) EXCEPT !.pc = "done", !.resp = "500"]]
    /\ ordClient' = [ordClient EXCEPT ![r] = release(EndTx(@))]
    /\ UNCHANGED <<stock, orders, orderItems, orderSeq, ordEvents, payVars, updVars, kafkaVars>>

(***************************************************************************)
(* PUT /products/:id                                                       *)
(***************************************************************************)

\* products.js lines 168-256: an admin's update that carries a stock value
\* runs UPDATE products SET stock = $n WHERE id = $m in autocommit; the
\* statement waits while an order transaction holds the row's lock
UpdateProduct(p, newStock) ==
    /\ \A r \in Requests : req[r].dec[p] = 0
    /\ newStock >= 0
    /\ stock' = [stock EXCEPT ![p] = newStock]
    /\ UNCHANGED ordClient
    /\ UNCHANGED <<orders, orderItems, orderSeq, req, ordEvents, payVars, updVars, kafkaVars>>

(***************************************************************************)
(* PUT /orders/:id/status                                                  *)
(***************************************************************************)

\* orders.js line 257
validStatuses == {"pending", "confirmed", "shipped", "delivered", "cancelled"}

\* values a request may carry as status ("" stands for a missing field)
StatusInputs == validStatuses \cup {"refunded", ""}

NoRow == [id |-> 0, user_id |-> 0, total |-> 0, status |-> "none"]

\* role and status are the request's req.user.role and req.body.status
IdleUpd == [pc |-> "idle", order_id |-> 0, role |-> "", status |-> "", row |-> NoRow,
            resp |-> "none"]

\* an UPDATE that inserts the row when the id has none
UpdatedRowsUpsert(id, status) ==
    IF \E x \in orders : x.id = id
    THEN {[o EXCEPT !.status = status] : o \in {x \in orders : x.id = id}}
    ELSE {[id |-> id, user_id |-> 0, total |-> 0, status |-> status]}

\* lines 267-273: UPDATE orders SET status = $1 WHERE id = $2 RETURNING *
UpdatedRows(id, status) ==
    {[o EXCEPT !.status = status] : o \in {x \in orders : x.id = id}}

\* the request of a handler state
UpdRequest(id, status, role) ==
    [IdleUpd EXCEPT !.order_id = id, !.status = status, !.role = role]

\* lines 248-279: the checks and the UPDATE (one statement, committed at once)
UpdateOrderStatus(id, status, role) ==
    /\ upd.pc = "idle"
    /\ updCount < MaxUpdates
    /\ updCount' = updCount + 1
    /\ IF role # "admin"
       THEN /\ upd' = [UpdRequest(id, status, role) EXCEPT !.resp = "403"]
            /\ UNCHANGED orders
       ELSE IF status \notin validStatuses
       THEN /\ upd' = [UpdRequest(id, status, role) EXCEPT !.resp = "400"]
            /\ UNCHANGED orders
       ELSE IF UpdatedRows(id, status) = {}
       THEN /\ upd' = [UpdRequest(id, status, role) EXCEPT !.resp = "404"]
            /\ UNCHANGED orders
       ELSE /\ orders' = {o \in orders : o.id # id} \cup UpdatedRows(id, status)
            /\ upd' = [UpdRequest(id, status, role) EXCEPT
                         !.pc = "publishing",
                         !.row = CHOOSE o \in UpdatedRows(id, status) : TRUE]
    /\ UNCHANGED ordClient
    /\ UNCHANGED <<stock, orderItems, orderSeq, req, ordEvents, payVars, kafkaVars>>

\* kafka-producer.js publishOrderUpdated: the message sent
OrderUpdatedEvent(o) ==
    [topic |-> "order.updated", key |-> StringOf(o.id), order_id |-> o.id,
     user_id |-> o.user_id, total |-> o.total, status |-> o.status]

\* lines 281-296: publish order.updated, then answer 200; a publish that
\* throws is answered 500 and the row stays updated
PublishUpdated(ok) ==
    /\ upd.pc = "publishing"
    /\ ordEvents' = IF ok THEN Append(ordEvents, OrderUpdatedEvent(upd.row)) ELSE ordEvents
    /\ IF publishOrderUpdated(ok) = "return"
       THEN upd' = [upd EXCEPT !.pc = "idle", !.resp = "200"]
       ELSE upd' = [upd EXCEPT !.pc = "idle", !.resp = "500"]
    /\ UNCHANGED ordClient
    /\ UNCHANGED <<stock, orders, orderItems, orderSeq, req, updCount, payVars, kafkaVars>>

(***************************************************************************)
(* processPayment, POST /process-payment and the order.created consumer    *)
(***************************************************************************)

NoTxn == <<>>

IdleCall == [pc |-> "idle", order_id |-> 0, key |-> "", amount |-> 0, row |-> 0,
             status |-> "none", txid |-> NoTxn, res |-> "none"]

\* messages of topic order.created; json = FALSE is a value JSON.parse rejects
Messages ==
    [json : {TRUE}, order_id : PayOrders, total : Amounts]
        \cup {[json |-> FALSE, order_id |-> 0, total |-> 0]}

\* committed payments rows of order o
RowsOf(o) == {p \in payments : p.order_id = o}

\* a message of a payment.* topic: key is String(orderId); order_id is the
\* order the message is about
PayEvent(topic, key, o, txid) ==
    [topic |-> topic, key |-> key, order_id |-> o, transaction_id |-> txid]

\* how many messages of the topic were published for order o
Published(topic, o) ==
    LET evs == {e \in BagToSet(payEvents) : e.topic = topic /\ e.order_id = o}
        RECURSIVE Sum(_)
        Sum(S) == IF S = {} THEN 0
                  ELSE LET e == CHOOSE x \in S : TRUE
                       IN CopiesIn(e, payEvents) + Sum(S \ {e})
    IN Sum(evs)

TerminalTopic(status) ==
    IF status = "succeeded" THEN "payment.succeeded" ELSE "payment.failed"

\* the call of slot s ends: its transaction is over, its result is kept
\* until the slot's next call; the consumer's slot also ends eachMessage,
\* whose offset is then resolved (subscribeWithRetry lines 243-252: both
\* the handler's return and a caught exception resolve it)
\* the exception is thrown on to kafkajs: the offset is not resolved
OffsetStays(off) == off

OffsetAfterError(off) == off + 1

OffsetAfterReturn(off) == off + 1

\* a short-circuit that publishes the row's terminal event again
ReturnExistingRepublish(s, o, amt, p) ==
    /\ call' = [call EXCEPT ![s] = [IdleCall EXCEPT !.order_id = PgInteger(o), !.key = o,
                                                    !.amount = amt, !.res = p.status]]
    /\ payEvents' = payEvents (+) SetToBag({PayEvent(TerminalTopic(p.status), o,
                                                     PgInteger(o), p.transaction_id)})
    /\ payClient' = [payClient EXCEPT ![s] = release(EndTx(Begin(connect(NoClient))))]
    /\ UNCHANGED <<payments, paySeq, lostSends>>

\* payment-processor.js lines 22-31: an existing row short-circuits the call
ReturnExisting(s, o, amt, p) ==
    /\ call' = [call EXCEPT ![s] = [IdleCall EXCEPT !.order_id = PgInteger(o), !.key = o,
                                                    !.amount = amt, !.res = p.status]]
    /\ payClient' = [payClient EXCEPT ![s] = release(EndTx(Begin(connect(NoClient))))]
    /\ UNCHANGED <<payments, paySeq, payEvents, lostSends>>

\* lines 34-42: INSERT INTO payments ... 'processing' (uncommitted)
InsertPayment(s, o, amt) ==
    /\ call' = [call EXCEPT ![s] = [IdleCall EXCEPT !.pc = "inserted",
                                                    !.order_id = PgInteger(o), !.key = o,
                                                    !.amount = amt, !.row = paySeq + 1,
                                                    !.status = "processing"]]
    /\ paySeq' = paySeq + 1
    /\ payClient' = [payClient EXCEPT ![s] = Begin(connect(NoClient))]
    /\ UNCHANGED <<payments, payEvents, lostSends>>

\* the call inserts without looking for an existing row
BeginPaymentNoCheck(s, o, amt) == InsertPayment(s, o, amt)

\* lines 13-42: BEGIN, the idempotency SELECT, then the short-circuit or
\* the INSERT
BeginPayment(s, o, amt) ==
    IF RowsOf(PgInteger(o)) # {}
    THEN \E p \in RowsOf(PgInteger(o)) : ReturnExisting(s, o, amt, p)
    ELSE InsertPayment(s, o, amt)

\* index.js lines 37-60: POST /process-payment
HttpCall(s, o, amt) ==
    /\ s \in HttpSlots
    /\ call[s].pc = "idle"
    /\ httpCalls < MaxHttpCalls
    /\ httpCalls' = httpCalls + 1
    /\ IF amt = 0
       THEN /\ call' = [call EXCEPT ![s] = [IdleCall EXCEPT !.order_id = PgInteger(o),
                                                           !.key = o, !.res = "400"]]
            /\ payClient' = [payClient EXCEPT ![s] = NoClient]
            /\ UNCHANGED <<payments, paySeq, payEvents, lostSends>>
       ELSE BeginPayment(s, o, amt)
    /\ UNCHANGED <<topicLog, offset, orderVars, kafkaVars>>

\* the orders service's message reaches the topic
Produce(m) ==
    /\ Len(topicLog) < MaxLog
    /\ topicLog' = Append(topicLog, m)
    /\ UNCHANGED <<payments, paySeq, call, payEvents, lostSends, httpCalls, offset, payClient, orderVars, kafkaVars>>

\* subscribeWithRetry lines 243-252 and kafka-consumer.js lines 9-36:
\* eachMessage for the message at the consumer's position
Deliver ==
    /\ call["k"].pc = "idle"
    /\ offset <= Len(topicLog)
    /\ LET m == topicLog[offset] IN
         IF ~m.json
         THEN \* JSON.parse throws, caught at line 248
              /\ offset' = OffsetAfterError(offset)
              /\ call' = [call EXCEPT !["k"] = [IdleCall EXCEPT !.res = "error"]]
              /\ payClient' = [payClient EXCEPT !["k"] = NoClient]
              /\ UNCHANGED <<payments, paySeq, payEvents, lostSends>>
         ELSE IF m.total = 0
         THEN \* kafka-consumer.js lines 13-16: the event is dropped
              /\ offset' = OffsetAfterReturn(offset)
              /\ call' = [call EXCEPT !["k"] = [IdleCall EXCEPT !.order_id = m.order_id,
                                                                !.res = "invalid"]]
              /\ payClient' = [payClient EXCEPT !["k"] = NoClient]
              /\ UNCHANGED <<payments, paySeq, payEvents, lostSends>>
         ELSE /\ BeginPayment("k", StringOf(m.order_id), m.total)
              /\ offset' = IF call'["k"].pc = "idle" THEN OffsetAfterReturn(offset)
                           ELSE offset
    /\ UNCHANGED <<httpCalls, topicLog, orderVars, kafkaVars>>

\* the position after the call of slot s ended, normally or by an exception
\* (kafka-consumer.js lines 28-35 swallow it; the HTTP route answers 500)
CallEnds(s, threw) ==
    offset' = IF s # "k" THEN offset
              ELSE IF threw THEN OffsetAfterError(offset)
              ELSE OffsetAfterReturn(offset)

\* a failed publish of payment.attempted that leaves the inserted row behind
PublishAttemptedKeepsRow(s, ok) ==
    /\ call[s].pc = "inserted"
    /\ IF ok
       THEN /\ payEvents' = payEvents (+) SetToBag({PayEvent("payment.attempted",
                                                           call[s].key, call[s].order_id,
                                                           NoTxn)})
            /\ call' = [call EXCEPT ![s].pc = "attempted"]
            /\ UNCHANGED <<payments, lostSends, offset>>
       ELSE /\ lostSends' = lostSends \cup {<<"payment.attempted", call[s].order_id>>}
            /\ payments' = payments \cup
                   {[id |-> call[s].row, order_id |-> call[s].order_id,
                     amount |-> call[s].amount, status |-> "processing",
                     transaction_id |-> NoTxn, failure_reason |-> "null"]}
            /\ call' = [call EXCEPT ![s] = [@ EXCEPT !.pc = "idle", !.row = 0,
                                                     !.status = "none", !.res = "error"]]
            /\ CallEnds(s, TRUE)
            /\ UNCHANGED payEvents
    /\ payClient' = [payClient EXCEPT ![s] = IF ok THEN @ ELSE release(EndTx(@))]
    /\ UNCHANGED <<paySeq, httpCalls, topicLog, orderVars, kafkaVars>>

\* lines 45-54: publish payment.attempted; a send that throws reaches the
\* catch of lines 130-133: ROLLBACK drops the inserted row
PublishAttempted(s, ok) ==
    /\ call[s].pc = "inserted"
    /\ IF ok
       THEN /\ payEvents' = payEvents (+) SetToBag({PayEvent("payment.attempted",
                                                           call[s].key, call[s].order_id,
                                                           NoTxn)})
            /\ call' = [call EXCEPT ![s].pc = "attempted"]
            /\ UNCHANGED <<lostSends, offset>>
       ELSE /\ lostSends' = lostSends \cup {<<"payment.attempted", call[s].order_id>>}
            /\ call' = [call EXCEPT ![s] = [@ EXCEPT !.pc = "idle", !.row = 0,
                                                     !.status = "none", !.res = "error"]]
            /\ CallEnds(s, TRUE)
            /\ UNCHANGED payEvents
    /\ payClient' = [payClient EXCEPT ![s] = IF ok THEN @ ELSE release(EndTx(@))]
    /\ UNCHANGED <<payments, paySeq, httpCalls, topicLog, orderVars, kafkaVars>>

\* a terminal row without its failure reason
DecidedRowNoReason(s, shouldFail, txid) ==
    [id |-> call[s].row, order_id |-> call[s].order_id, amount |-> call[s].amount,
     status |-> IF shouldFail THEN "failed" ELSE "succeeded",
     transaction_id |-> txid,
     failure_reason |-> "null"]

\* the row as the UPDATE of lines 69-74 / 102-107 writes it
DecidedRow(s, shouldFail, txid) ==
    [id |-> call[s].row, order_id |-> call[s].order_id, amount |-> call[s].amount,
     status |-> IF shouldFail THEN "failed" ELSE "succeeded",
     transaction_id |-> txid,
     failure_reason |-> IF shouldFail THEN "Simulated payment failure" ELSE "null"]

\* lines 56-76 / 102-109: the delay is over; the outcome is drawn, the row
\* is updated (transaction_id is UNIQUE: a value a committed row already
\* has makes the UPDATE throw) and the transaction commits
Decide(s, random, now) ==
    /\ call[s].pc = "attempted"
    /\ LET shouldFail == (random = 0)
           txid == <<now, call[s].order_id>>
       IN IF \E p \in payments : p.transaction_id = txid
          THEN /\ call' = [call EXCEPT ![s] = [@ EXCEPT !.pc = "idle", !.row = 0,
                                                        !.status = "none", !.res = "error"]]
               /\ CallEnds(s, TRUE)
               /\ UNCHANGED payments
          ELSE /\ payments' = payments \cup {DecidedRow(s, shouldFail, txid)}
               /\ call' = [call EXCEPT ![s].pc = "committed",
                                       ![s].status = DecidedRow(s, shouldFail, txid).status,
                                       ![s].txid = txid]
               /\ UNCHANGED offset
    /\ payClient' = [payClient EXCEPT ![s] = IF \E p \in payments : p.transaction_id = <<now, call[s].order_id>>
                                              THEN release(EndTx(@)) ELSE EndTx(@)]
    /\ UNCHANGED <<paySeq, payEvents, lostSends, httpCalls, topicLog, orderVars, kafkaVars>>

\* a terminal publish that sends the event of the other outcome
PublishTerminalSwapped(s, ok) ==
    /\ call[s].pc = "committed"
    /\ IF ok
       THEN /\ payEvents' = payEvents (+) SetToBag({PayEvent(
                                 IF call[s].status = "succeeded" THEN "payment.failed"
                                 ELSE "payment.succeeded",
                                 call[s].key, call[s].order_id, call[s].txid)})
            /\ call' = [call EXCEPT ![s].pc = "idle", ![s].res = call[s].status]
            /\ offset' = IF s = "k" THEN offset + 1 ELSE offset
            /\ UNCHANGED lostSends
       ELSE /\ lostSends' = lostSends \cup {<<"payment.failed", call[s].order_id>>}
            /\ call' = [call EXCEPT ![s].pc = "idle", ![s].res = "error"]
            /\ offset' = IF s = "k" THEN offset + 1 ELSE offset
            /\ UNCHANGED payEvents
    /\ payClient' = [payClient EXCEPT ![s] = IF ok THEN release(@) ELSE release(EndTx(@))]
    /\ UNCHANGED <<payments, paySeq, httpCalls, topicLog, orderVars, kafkaVars>>

\* lines 78-98 / 111-129: publish the terminal event and return; a send
\* that throws reaches the catch (ROLLBACK after COMMIT changes nothing)
PublishTerminal(s, ok) ==
    /\ call[s].pc = "committed"
    /\ IF ok
       THEN /\ payEvents' = payEvents (+) SetToBag({PayEvent(TerminalTopic(call[s].status),
                                                           call[s].key, call[s].order_id,
                                                           call[s].txid)})
            /\ call' = [call EXCEPT ![s].pc = "idle", ![s].res = call[s].status]
            /\ CallEnds(s, FALSE)
            /\ UNCHANGED lostSends
       ELSE /\ lostSends' = lostSends \cup {<<TerminalTopic(call[s].status), call[s].order_id>>}
            /\ call' = [call EXCEPT ![s].pc = "idle", ![s].res = "error"]
            /\ CallEnds(s, TRUE)
            /\ UNCHANGED payEvents
    /\ payClient' = [payClient EXCEPT ![s] = IF ok THEN release(@) ELSE release(EndTx(@))]
    /\ UNCHANGED <<payments, paySeq, httpCalls, topicLog, orderVars, kafkaVars>>

PaymentsStart ==
    /\ payments = {}
    /\ paySeq = 0
    /\ call = [s \in Slots |-> IdleCall]
    /\ payClient = [s \in Slots |-> NoClient]
    /\ payEvents = EmptyBag
    /\ lostSends = {}
    /\ httpCalls = 0
    /\ topicLog = <<>>
    /\ offset = 1

\* a draw that rounds up
DrawsFromOne(rate) == 1..rate

\* line 60: the values of Math.floor(Math.random() * rate), Math.random()
\* being in [0, 1)
Draws(rate) == IF rate > 0 THEN 0..(rate - 1) ELSE {0}

\* the steps of a call after its INSERT, under failure rate rate
PayStepAt(s, rate) ==
    \/ \E ok \in BOOLEAN : PublishAttempted(s, ok)
    \/ \E random \in Draws(rate), now \in Times : Decide(s, random, now)
    \/ \E ok \in BOOLEAN : PublishTerminal(s, ok)

PayStep(s) == PayStepAt(s, FAILURE_RATE)

NextPay ==
    \/ \E s \in HttpSlots, o \in JsIds, amt \in Amounts : HttpCall(s, o, amt)
    \/ \E m \in Messages : Produce(m)
    \/ Deliver
    \/ \E s \in Slots : PayStep(s)

\* calls made one after another: a single HTTP client that waits for each
\* answer
NextPaySeq ==
    \/ \E o \in JsIds, amt \in Amounts : HttpCall("h", o, amt)
    \/ PayStep("h")

(***************************************************************************)
(* The Kafka wrapper: subscribe with retry, publish                        *)
(***************************************************************************)

\* subscribeWithRetry's default parameter maxRetries
maxRetries == 3

\* the topic at the broker: absent, created but without a partition leader,
\* or ready
TopicStates == {"missing", "created", "ready"}

\* error messages of kafkajs; "none" is the call that settles without error
TopicErrors == {"UnknownTopicOrPartition", "LeaderNotAvailable"}
OtherErrors == {"ECONNREFUSED"}
Outcomes == {"none"} \cup TopicErrors \cup OtherErrors

\* a test that takes every error for a topic error
isAnyError(err) == err # "none"

\* lines 259-263
isTopicError(err) ==
    err \in {"does not host this topic-partition", "UnknownTopicOrPartition",
             "LeaderNotAvailable"}

Min(a, b) == IF a < b THEN a ELSE b

\* a backoff that grows by one second per retry
DelayLinear(retryCount) == Min(1000 * (retryCount + 1), 10000)

\* line 266
Delay(retryCount) == Min(1000 * 2^retryCount, 10000)

\* lines 195-219: the topic after ensureTopicExists; an error of the admin
\* client is swallowed
ensureTopicExists(state, adminOk) ==
    IF adminOk /\ state = "missing" THEN "created" ELSE state

\* what the broker lets a call on the topic end with
Possible(state, err) ==
    IF err = "none" THEN state = "ready"
    ELSE IF err \in TopicErrors THEN state # "ready"
    ELSE TRUE

\* lines 223-229, 238-240: getConsumer creates a consumer and connects it;
\* an unreachable broker fails connect(), a topic that is not ready fails
\* the subscribe() or run() of the connected consumer
ConsumerConnects(err) == err = "none" \/ isTopicError(err)

NoMember == [state |-> "none", position |-> 0]

GroupStart ==
    /\ consumers = 0
    /\ member = NoMember
    /\ committed = 0
    /\ handled = {}
    /\ report = "none"
    /\ restarts = 0

IdleSub == [pc |-> "idle", retryCount |-> 0, delays |-> <<>>, error |-> "none",
            result |-> "none"]

\* callers of publish within one process
Callers == {"p1", "p2"}

IdlePub == [pc |-> "idle", sends |-> 0, topicWas |-> "none", error |-> "none",
            result |-> "none", producerWas |-> "none"]

KafkaStart ==
    /\ topicState \in TopicStates
    /\ sub = IdleSub
    /\ pub = [c \in Callers |-> IdlePub]
    /\ producer = "null"
    /\ pubCount = 0
    /\ brokerLog = <<>>
    /\ GroupStart

KafkaIdle ==
    /\ topicState = "ready"
    /\ sub = IdleSub
    /\ pub = [c \in Callers |-> IdlePub]
    /\ producer = "null"
    /\ pubCount = 0
    /\ brokerLog = <<>>
    /\ GroupStart

\* lines 285-287: subscribe(topic, groupId, handler)
Subscribe ==
    /\ sub.pc = "idle"
    /\ sub' = [sub EXCEPT !.pc = "trying"]
    /\ UNCHANGED <<topicState, pub, producer, pubCount, brokerLog, orderVars, payVars, groupVars>>

\* lines 233-281: one call of subscribeWithRetry up to its return, its
\* throw or the start of its backoff timer
SubscribeAttempt(adminOk, err) ==
    /\ sub.pc = "trying"
    /\ Possible(ensureTopicExists(topicState, adminOk), err)
    /\ topicState' = ensureTopicExists(topicState, adminOk)
    /\ IF err = "none"
       THEN sub' = [sub EXCEPT !.pc = "done", !.result = "consumer"]
       ELSE IF isTopicError(err) /\ sub.retryCount < maxRetries
       THEN sub' = [sub EXCEPT !.pc = "waiting", !.error = err,
                               !.delays = Append(@, Delay(sub.retryCount))]
       ELSE IF isTopicError(err)
       THEN sub' = [sub EXCEPT !.pc = "done", !.error = err, !.result = "null"]
       ELSE sub' = [sub EXCEPT !.pc = "done", !.error = err, !.result = "throw"]
    /\ consumers' = IF ConsumerConnects(err) THEN consumers + 1 ELSE consumers
    /\ UNCHANGED <<pub, producer, pubCount, brokerLog, orderVars, payVars,
                   member, committed, handled, report, restarts>>

\* lines 269-270: the timer fires and subscribeWithRetry calls itself
SubscribeRetry ==
    /\ sub.pc = "waiting"
    /\ sub' = [sub EXCEPT !.pc = "trying", !.retryCount = @ + 1]
    /\ UNCHANGED <<topicState, pub, producer, pubCount, brokerLog, orderVars, payVars, groupVars>>

\* the broker elects the partition leader of a created topic
BrokerElectsLeader ==
    /\ topicState = "created"
    /\ topicState' = "ready"
    /\ UNCHANGED <<sub, pub, producer, pubCount, brokerLog, orderVars, payVars, groupVars>>

\* lines 142-151, 162-163: publish is called and getProducer runs up to its
\* first await: a producerInstance that is set is returned as it is and
\* send is called on it; otherwise the producer is created, assigned to
\* producerInstance and its connect() is awaited
Publish(c) ==
    /\ pub[c].pc \in {"idle", "done"}
    /\ pubCount < MaxPublishes
    /\ pubCount' = pubCount + 1
    /\ IF producer = "null"
       THEN /\ producer' = "connecting"
            /\ pub' = [pub EXCEPT ![c] = [IdlePub EXCEPT !.pc = "connecting",
                                                         !.topicWas = topicState]]
       ELSE /\ pub' = [pub EXCEPT ![c] = [IdlePub EXCEPT !.pc = "sending",
                                                         !.topicWas = topicState,
                                                         !.producerWas = producer]]
            /\ UNCHANGED producer
    /\ UNCHANGED <<topicState, sub, brokerLog, orderVars, payVars, groupVars>>

\* lines 153-156, 165-167: connect() settles; after a failure
\* producerInstance keeps the producer that is not connected
ConnectSettles(c, connectOk) ==
    /\ pub[c].pc = "connecting"
    /\ IF connectOk
       THEN /\ producer' = "connected"
            /\ pub' = [pub EXCEPT ![c].pc = "sending", ![c].producerWas = "connected"]
       ELSE /\ producer' = "unconnected"
            /\ pub' = [pub EXCEPT ![c].pc = "done", ![c].error = "ECONNREFUSED",
                                  ![c].result = "throw"]
    /\ UNCHANGED <<topicState, sub, pubCount, brokerLog, orderVars, payVars, groupVars>>

\* lines 167-177: producer.send is awaited once; it settles when the broker
\* acknowledged the message (a broker that creates topics on demand makes
\* the topic ready) or rejects, and the rejection leaves publish uncaught
Send(c, err) ==
    /\ pub[c].pc = "sending"
    /\ err = "none" \/ Possible(topicState, err)
    /\ IF err = "none"
       THEN /\ brokerLog' = Append(brokerLog, pubCount)
            /\ topicState' = "ready"
            /\ pub' = [pub EXCEPT ![c].pc = "done", ![c].sends = @ + 1,
                                  ![c].result = publish(TRUE)]
       ELSE /\ pub' = [pub EXCEPT ![c].pc = "done", ![c].sends = @ + 1, ![c].error = err,
                                  ![c].result = publish(FALSE)]
            /\ UNCHANGED <<brokerLog, topicState>>
    /\ UNCHANGED <<sub, producer, pubCount, orderVars, payVars, groupVars>>

\* kafka-consumer.js lines 9-38, index.js lines 98-102: subscribe settled;
\* startOrderConsumer logs that the consumer started whatever subscribe
\* returned, and logs the failure when subscribe threw
StartOrderConsumerEnds ==
    /\ sub.pc = "done"
    /\ report = "none"
    /\ report' = IF sub.result = "throw" THEN "failed" ELSE "started"
    /\ UNCHANGED <<topicState, sub, pub, producer, pubCount, brokerLog, orderVars, payVars,
                   consumers, member, committed, handled, restarts>>

\* line 240, fromBeginning: false: the running consumer starts fetching at
\* the offset stored for its group, or at the end of the log when the
\* group has none
StartPosition == IF committed = 0 THEN Len(brokerLog) + 1 ELSE committed

\* a consumer that starts fetching by itself after subscribe returned null
FetchStartsAfterNull ==
    /\ sub.pc = "done" /\ sub.result \in {"consumer", "null"}
    /\ member.state = "none"
    /\ member' = [state |-> "fetching", position |-> StartPosition]
    /\ UNCHANGED <<topicState, sub, pub, producer, pubCount, brokerLog, orderVars, payVars,
                   consumers, committed, handled, report, restarts>>

\* lines 242-253: consumer.run; the consumer joined its group and fetches
FetchStarts ==
    /\ sub.pc = "done" /\ sub.result = "consumer"
    /\ member.state = "none"
    /\ member' = [state |-> "fetching", position |-> StartPosition]
    /\ UNCHANGED <<topicState, sub, pub, producer, pubCount, brokerLog, orderVars, payVars,
                   consumers, committed, handled, report, restarts>>

\* lines 243-253: eachMessage hands the next message to the handler and
\* resolves, whatever the handler did; its offset is committed
HandleMessage ==
    /\ member.state = "fetching"
    /\ member.position <= Len(brokerLog)
    /\ handled' = handled \cup {member.position}
    /\ member' = [member EXCEPT !.position = @ + 1]
    /\ committed' = member.position + 1
    /\ UNCHANGED <<topicState, sub, pub, producer, pubCount, brokerLog, orderVars, payVars,
                   consumers, report, restarts>>

\* index.js lines 93-118: the payments process exits and is started again;
\* its connections are gone and the listen callback will subscribe anew
ProcessRestarts ==
    /\ sub.pc = "done"
    /\ restarts < MaxRestarts
    /\ restarts' = restarts + 1
    /\ sub' = IdleSub
    /\ consumers' = 0
    /\ member' = NoMember
    /\ report' = "none"
    /\ UNCHANGED <<topicState, pub, producer, pubCount, brokerLog, orderVars, payVars,
                   committed, handled>>

SubStep ==
    \/ \E adminOk \in BOOLEAN, err \in Outcomes : SubscribeAttempt(adminOk, err)
    \/ SubscribeRetry

NextKafka ==
    \/ Subscribe
    \/ SubStep
    \/ BrokerElectsLeader
    \/ Publish("p1")
    \/ \E connectOk \in BOOLEAN : ConnectSettles("p1", connectOk)
    \/ \E err \in Outcomes : Send("p1", err)

OrdersStart ==
    /\ stock \in [Products -> 0..MaxStock]
    /\ orders = {}
    /\ orderItems = {}
    /\ orderSeq = 0
    /\ req = [r \in Requests |-> IdleReq]
    /\ ordClient = [r \in Requests |-> NoClient]
    /\ ordEvents = <<>>
    /\ upd = IdleUpd
    /\ updCount = 0

InitOrders == OrdersStart /\ PaymentsStart /\ KafkaIdle

NextOrders ==
    \E r \in Requests :
        \/ \E items \in Bodies : PostOrder(r, items)
        \/ \E lookup \in LookupResults : CheckStock(r, lookup)
        \/ WriteItem(r)
        \/ Commit(r)
        \/ \E ok \in BOOLEAN : PublishCreated(r, ok)
        \/ DeadlockAbort(r)

SpecOrders == InitOrders /\ [][NextOrders]_vars

\* a customer orders while an admin edits the products
NextProducts ==
    \/ \E items \in Bodies : PostOrder("r1", items)
    \/ \E lookup \in LookupResults : CheckStock("r1", lookup)
    \/ WriteItem("r1")
    \/ Commit("r1")
    \/ \E ok \in BOOLEAN : PublishCreated("r1", ok)
    \/ \E p \in Products, newStock \in 0..MaxStock : UpdateProduct(p, newStock)

SpecProducts == InitOrders /\ [][NextProducts]_vars

\* every quantity a request may ask for is in stock
InitTotals ==
    /\ PaymentsStart
    /\ KafkaIdle
    /\ stock = [p \in Products |-> MaxQty]
    /\ orders = {}
    /\ orderItems = {}
    /\ orderSeq = 0
    /\ req = [r \in Requests |-> IdleReq]
    /\ ordClient = [r \in Requests |-> NoClient]
    /\ ordEvents = <<>>
    /\ upd = IdleUpd
    /\ updCount = 0

SpecTotals == InitTotals /\ [][NextOrders]_vars

InitPay ==
    OrdersStart /\ PaymentsStart /\ KafkaIdle /\ stock = [p \in Products |-> MaxStock]

SpecPay == InitPay /\ [][NextPay]_vars

SpecPaySeq == InitPay /\ [][NextPaySeq]_vars

\* PAYMENT_FAILURE_RATE = 1: every draw is 0
NextPayFail ==
    \/ \E o \in JsIds, amt \in Amounts : HttpCall("h", o, amt)
    \/ PayStepAt("h", 1)

SpecPayFail == InitPay /\ [][NextPayFail]_vars

\* the payments consumer alone
NextConsumer ==
    \/ \E m \in Messages : Produce(m)
    \/ Deliver
    \/ PayStep("k")

SpecConsumer == InitPay /\ [][NextConsumer]_vars

\* kafkajs keeps fetching, and every await of processPayment settles
SpecConsumerFair ==
    InitPay /\ [][NextConsumer]_vars /\ WF_vars(Deliver) /\ WF_vars(PayStep("k"))

\* an order as one POST /orders of user 7 for one unit of product 1 commits it
InitStatus ==
    /\ PaymentsStart
    /\ KafkaIdle
    /\ stock = [p \in Products |-> MaxStock]
    /\ orders = {[id |-> 1, user_id |-> 7, total |-> Price(1), status |-> "pending"]}
    /\ orderItems = {[order_id |-> 1, line |-> 1, product_id |-> 1, quantity |-> 1,
                      unit_price |-> Price(1), subtotal |-> Price(1)]}
    /\ orderSeq = 1
    /\ req = [r \in Requests |-> IdleReq]
    /\ ordClient = [r \in Requests |-> NoClient]
    /\ ordEvents = <<[topic |-> "order.created", key |-> "1", order_id |-> 1,
                      user_id |-> 7, total |-> Price(1), status |-> "pending"]>>
    /\ upd = IdleUpd
    /\ updCount = 0

NextStatus ==
    \/ \E id \in {1, 2}, status \in StatusInputs, role \in {"admin", "customer"} :
          UpdateOrderStatus(id, status, role)
    \/ \E ok \in BOOLEAN : PublishUpdated(ok)

SpecStatus == InitStatus /\ [][NextStatus]_vars

InitKafka ==
    OrdersStart /\ PaymentsStart /\ KafkaStart /\ stock = [p \in Products |-> MaxStock]

SpecKafka == InitKafka /\ [][NextKafka]_vars

\* carts that reach every way POST /orders ends: rejected by validation,
\* unknown product, too little stock, created, and two carts that lock the
\* same products in opposite orders
ClientBodies ==
    {<<>>,
     <<[product_id |-> 1, quantity |-> 0]>>,
     <<[product_id |-> 3, quantity |-> 1]>>,
     <<[product_id |-> 1, quantity |-> MaxQty]>>,
     <<[product_id |-> 1, quantity |-> 1], [product_id |-> 2, quantity |-> 1]>>,
     <<[product_id |-> 2, quantity |-> 1], [product_id |-> 1, quantity |-> 1]>>}

\* two POST /orders requests and the calls of POST /process-payment
NextClients ==
    \/ \E r \in Requests :
          \/ \E items \in ClientBodies : PostOrder(r, items)
          \/ \E lookup \in LookupResults : CheckStock(r, lookup)
          \/ WriteItem(r)
          \/ Commit(r)
          \/ \E ok \in BOOLEAN : PublishCreated(r, ok)
          \/ DeadlockAbort(r)
    \/ \E amt \in Amounts : HttpCall("h", "1", amt)
    \/ PayStep("h")

SpecClients == InitOrders /\ [][NextClients]_vars

\* two callers of one process publish, one after another or at once
NextProducer ==
    \/ \E c \in Callers : Publish(c)
    \/ \E c \in Callers, connectOk \in BOOLEAN : ConnectSettles(c, connectOk)
    \/ \E c \in Callers, err \in Outcomes : Send(c, err)
    \/ BrokerElectsLeader

SpecProducer == InitKafka /\ [][NextProducer]_vars

\* the payments process with its HTTP route and its consumer, on a broker
\* whose topic may not be ready
NextService ==
    \/ NextKafka
    \/ StartOrderConsumerEnds
    \/ FetchStarts
    \/ HandleMessage
    \/ ProcessRestarts
    \/ HttpCall("h", "1", 100)
    \/ PayStep("h")

SpecService == InitKafka /\ [][NextService]_vars

\* the orders service publishes order.created to a healthy broker while the
\* payments process starts, consumes and restarts
NextGroup ==
    \/ Publish("p1")
    \/ \E connectOk \in BOOLEAN : ConnectSettles("p1", connectOk)
    \/ \E err \in Outcomes : Send("p1", err)
    \/ Subscribe
    \/ \E adminOk \in BOOLEAN : SubscribeAttempt(adminOk, "none")
    \/ StartOrderConsumerEnds
    \/ FetchStarts
    \/ HandleMessage
    \/ ProcessRestarts

SpecGroup == InitPay /\ [][NextGroup]_vars

\* the listen callback runs, every await of subscribe settles, and a
\* running consumer keeps fetching
SpecGroupFair ==
    /\ SpecGroup
    /\ WF_vars(Subscribe)
    /\ WF_vars(\E adminOk \in BOOLEAN : SubscribeAttempt(adminOk, "none"))
    /\ WF_vars(FetchStarts)
    /\ WF_vars(HandleMessage)

\* every await of subscribeWithRetry settles and its timers fire
SpecKafkaFair == InitKafka /\ [][NextKafka]_vars /\ WF_vars(SubStep)

\* one customer's POST /orders and an admin's status updates of order 1
NextPublish ==
    \/ \E items \in Bodies : PostOrder("r1", items)
    \/ \E lookup \in LookupResults : CheckStock("r1", lookup)
    \/ WriteItem("r1")
    \/ Commit("r1")
    \/ \E ok \in BOOLEAN : PublishCreated("r1", ok)
    \/ \E status \in {"confirmed", "shipped"} : UpdateOrderStatus(1, status, "admin")
    \/ \E ok \in BOOLEAN : PublishUpdated(ok)

SpecPublish == InitStatus /\ [][NextPublish]_vars

\* the saga of an order: the payments consumer handles order.created; the
\* payment.* topics are subscribed to by the notifications service only
\* (email.js lines 178, 197), whose handlers send mail, so the orders rows
\* are written by POST /orders and PUT /orders/:id/status alone
NextSaga ==
    \/ NextConsumer
    \/ NextStatus

\* consumers keep consuming; HTTP requests are made when clients choose to
SpecSagaFair ==
    InitStatus /\ [][NextSaga]_vars /\ WF_vars(Deliver) /\ WF_vars(PayStep("k"))

(***************************************************************************)
(* Properties                                                              *)
(***************************************************************************)

CheckRejections == {"400_notfound", "400_stock"}

\* C1: the step in which createOrder fails on a missing product or on
\* insufficient stock changes no persisted state (no orders row, no
\* order_items row, no stock value, no order id drawn), and the request
\* holds no uncommitted write afterwards.
C1_FailedCreateOrderChangesNothing ==
    [][\A r \in Requests :
          (req[r].resp = "none" /\ req'[r].resp \in CheckRejections)
              => /\ stock' = stock
                 /\ orders' = orders
                 /\ orderItems' = orderItems
                 /\ orderSeq' = orderSeq
                 /\ req'[r].order = 0
                 /\ req'[r].lines = <<>>
                 /\ req'[r].dec = NoDec]_vars

\* a request failed on stock after the order of another request was
\* committed and took the units
C1_Witness ==
    \E r \in Requests :
        /\ req[r].resp = "400_stock"
        /\ orders # {}
        /\ \E i \in 1..Len(req[r].items) :
              /\ req[r].items[i].product_id \in Products
              /\ stock[req[r].items[i].product_id] < MaxStock

\* C2: the stock of every product is never below 0, under any interleaving
\* of createOrder transactions.
C2_StockNeverNegative == \A p \in Products : stock[p] >= 0

\* every item names an existing product and asks for at most the stock read
Available(items, snap) ==
    \A i \in 1..Len(items) :
        /\ items[i].product_id \in Products
        /\ items[i].quantity <= snap[items[i].product_id]

\* C3: a createOrder request that passed validation is rejected by the
\* product and stock checks exactly when some product is missing or some
\* item's quantity exceeds the stock read, repeated product ids included.
C3_SucceedsIffAvailable ==
    \A r \in Requests :
        (req[r].items # <<>> /\ req[r].pc \in {"writing", "committed", "done"})
            => (req[r].resp \in CheckRejections <=> ~Available(req[r].items, req[r].snap))

\* C4: there is at most one payments row per order id in every reachable
\* state.
C4_OnePaymentPerOrder == \A o \in PayOrders : Cardinality(RowsOf(o)) <= 1

TerminalStatuses == {"succeeded", "failed"}

\* C5: two processPayment calls for the same order id that both returned a
\* status returned the same status.
C5_CallersSeeSameStatus ==
    \A s \in Slots, t \in Slots :
        (/\ call[s].order_id = call[t].order_id
         /\ call[s].res \in TerminalStatuses
         /\ call[t].res \in TerminalStatuses)
            => call[s].res = call[t].res

Terminals(o) == Published("payment.succeeded", o) + Published("payment.failed", o)

DupAtOffset ==
    /\ offset <= Len(topicLog)
    /\ \E i \in 1..(offset - 1) : topicLog[i] = topicLog[offset]

\* a step of the consumer's eachMessage
ConsumerStep == call'["k"] # call["k"] \/ offset' # offset

C8_FailedMessageNotAcknowledged ==
    [][(ConsumerStep /\ call'["k"].pc = "idle" /\ call'["k"].res = "error")
          => offset' = offset]_vars

\* C9: every message of the topic is eventually consumed, whatever
\* exceptions the processing of the messages before it threw.
C9_LaterMessagesStillHandled ==
    \A k \in 1..MaxLog : (Len(topicLog) >= k) ~> (offset > k)

\* the first message could not be parsed and the second one was processed
\* to a payment
C9_Witness ==
    /\ Len(topicLog) = 2
    /\ ~topicLog[1].json
    /\ offset = 3
    /\ call["k"].res \in TerminalStatuses
    /\ payments # {}

\* orders.status state machine of the specification
AllowedEdges ==
    {<<"pending", "confirmed">>, <<"confirmed", "shipped">>, <<"shipped", "delivered">>,
     <<"pending", "cancelled">>, <<"confirmed", "cancelled">>}

\* C10: the status of an order changes only along the edges of the state
\* machine, and every order.updated event published follows such a change.
C10_OnlyStateMachineEdges ==
    [][/\ \A o \in orders, n \in orders' :
             (o.id = n.id /\ o.status # n.status) => <<o.status, n.status>> \in AllowedEdges
       /\ (upd.pc = "idle" /\ upd'.pc = "publishing")
             => \E o \in orders : o.id = upd'.order_id
                                  /\ <<o.status, upd'.row.status>> \in AllowedEdges]_vars

\* the ids of the orders rows
OrderIds == {o.id : o \in orders}

\* a PUT /orders/:id/status request is received
UpdateStarts == updCount' = updCount + 1

\* C11: an updateOrderStatus request of an admin with a valid status for an
\* order id without a row is answered not-found in the step that receives
\* it; the step changes no orders row and publishes nothing, and no publish
\* of order.updated is pending afterwards.
C11_UnknownOrderIsNotFound ==
    [][(/\ UpdateStarts
        /\ upd'.order_id \notin OrderIds
        /\ upd'.role = "admin"
        /\ upd'.status \in validStatuses)
          => /\ upd'.resp = "404"
             /\ upd'.pc = "idle"
             /\ orders' = orders
             /\ ordEvents' = ordEvents]_vars

\* an update of an unknown order was answered not-found after an update of
\* the existing order had been published
C11_Witness ==
    /\ upd.resp = "404"
    /\ upd.order_id \notin OrderIds
    /\ \E i \in 1..Len(ordEvents) : ordEvents[i].topic = "order.updated"

\* C12: order.created is published only for an order whose transaction is
\* committed (its orders row and order_items rows are visible), and the
\* step in which the publish fails leaves the orders rows, the order_items
\* rows and the stock as the commit wrote them.
C12_PublishAfterCommitUndoesNothing ==
    [][/\ \A r \in Requests :
             (req[r].pc = "committed" /\ req'[r].pc = "done")
                => /\ req[r].order \in OrderIds
                   /\ CommittedLines(r) \subseteq orderItems
                   /\ orders' = orders
                   /\ orderItems' = orderItems
                   /\ stock' = stock
       /\ (ordEvents' # ordEvents)
             => \E r \in Requests :
                   /\ req[r].pc = "committed"
                   /\ ordEvents' = Append(ordEvents, OrderCreatedEvent(r))]_vars

\* the publish of a committed order failed: the order and its decrement
\* are there, its event is not
C12_Witness ==
    \E r \in Requests :
        /\ req[r].resp = "500"
        /\ req[r].order \in OrderIds
        /\ \E l \in orderItems : l.order_id = req[r].order /\ stock[l.product_id] < MaxStock
        /\ \A i \in 1..Len(ordEvents) : ordEvents[i].order_id # req[r].order

\* the request went through the user lookup and the product checks
Looked(r) == req[r].items # <<>> /\ req[r].pc \notin {"idle", "begun"}

\* what the checks of createOrder decided for the request: the rejection or
\* the order inserted (its total and whether an order id was drawn)
CheckResult(r) ==
    <<IF req[r].resp \in CheckRejections THEN req[r].resp ELSE "passed",
      req[r].total, req[r].order # 0>>

\* C13: two createOrder requests with the same items that read the same
\* stock, one whose user lookup succeeded and one whose lookup failed
\* (not-found or unavailable), get the same decision of the checks and
\* the same total; when both orders are committed they have the same
\* order_items lines, and the published order.created events carry the
\* same total.
C13_LookupDoesNotChangeOutcome ==
    \A r \in Requests, q \in Requests :
        (/\ Looked(r) /\ Looked(q)
         /\ req[r].items = req[q].items
         /\ req[r].snap = req[q].snap
         /\ req[r].user = "response"
         /\ req[q].user # "response")
            => /\ req[q].user = "fallback"
               /\ CheckResult(r) = CheckResult(q)
               /\ (req[r].order \in OrderIds /\ req[q].order \in OrderIds)
                     => req[r].lines = req[q].lines
               /\ (req[r].resp = "201" /\ req[q].resp = "201")
                     => \E i, j \in 1..Len(ordEvents) :
                           /\ ordEvents[i].order_id = req[r].order
                           /\ ordEvents[j].order_id = req[q].order
                           /\ ordEvents[i].total = ordEvents[j].total

\* an order was created after a failed lookup, as the same order was
\* after a lookup that succeeded
C13_Witness ==
    \E r \in Requests, q \in Requests :
        /\ req[r].items = req[q].items
        /\ req[r].snap = req[q].snap
        /\ req[r].user = "response"
        /\ req[q].user = "fallback"
        /\ req[r].resp = "201"
        /\ req[q].resp = "201"

\* C14: once a terminal payment event is published for an order, the order
\* eventually leaves status pending.
C14_PaidOrderLeavesPending ==
    \A o \in PayOrders :
        (Terminals(o) > 0 /\ \E x \in orders : x.id = o)
            ~> (\E x \in orders : x.id = o /\ x.status # "pending")

\* the backoff before retry k (k counted from 0), in milliseconds
Backoff(k) == IF 1000 * 2^k < 10000 THEN 1000 * 2^k ELSE 10000

\* C15: subscribe retries at most 3 times, waits min(1000 * 2^k, 10000) ms
\* before retry k, never throws an error of a topic that is not ready but
\* returns null once the last retry met one, and every subscribe call
\* terminates.
C15_SubscribeRetriesBoundedThenNull ==
    /\ [](/\ sub.retryCount <= 3
          /\ Len(sub.delays) <= 3
          /\ \A k \in 1..Len(sub.delays) : sub.delays[k] = Backoff(k - 1)
          /\ (sub.pc \in {"trying", "done"}) => Len(sub.delays) = sub.retryCount
          /\ (sub.result = "throw") => sub.error \notin TopicErrors
          /\ (sub.pc = "done" /\ sub.result # "consumer" /\ sub.error \in TopicErrors)
                => (sub.result = "null" /\ sub.retryCount = 3))
    /\ ((sub.pc # "idle") ~> (sub.pc = "done"))

\* the topic never became ready: subscribe gave up after three retries
C15_Witness ==
    /\ sub.pc = "done"
    /\ sub.result = "null"
    /\ sub.delays = <<1000, 2000, 4000>>
    /\ topicState # "ready"

\* C16: a publish call that found the topic not ready does not end with a
\* topic error after a single send, and a publish call that found the
\* topic missing leaves it created.
C16_PublishCreatesTopicAndRetries ==
    (pub["p1"].pc = "done" /\ pub["p1"].topicWas # "ready")
        => /\ (pub["p1"].result = "throw" /\ pub["p1"].error \in TopicErrors)
                 => pub["p1"].sends > 1
           /\ (pub["p1"].sends > 0) => topicState # "missing"

\* C17: an order operation is answered with success only when the broker
\* acknowledged its event (the event is in the topic), and when the send
\* fails the operation is answered 500: the error of publish reaches
\* POST /orders through publishOrderCreated and PUT /orders/:id/status
\* through publishOrderUpdated.
C17_SendFailureReachesOperation ==
    [][/\ \A r \in Requests :
             (req[r].pc = "committed" /\ req'[r].pc = "done")
                => /\ (req'[r].resp = "201")
                        <=> (ordEvents' = Append(ordEvents, OrderCreatedEvent(r)))
                   /\ (req'[r].resp # "201")
                        => (req'[r].resp = "500" /\ ordEvents' = ordEvents)
       /\ (upd.pc = "publishing" /\ upd'.pc = "idle")
             => /\ (upd'.resp = "200")
                     <=> (ordEvents' = Append(ordEvents, OrderUpdatedEvent(upd.row)))
                /\ (upd'.resp # "200")
                     => (upd'.resp = "500" /\ ordEvents' = ordEvents)]_vars

\* the send of order.created failed and the request was answered 500; the
\* send of a later order.updated failed and its request was answered 500
C17_Witness ==
    /\ req["r1"].resp = "500"
    /\ req["r1"].order \in OrderIds
    /\ upd.resp = "500"
    /\ \A i \in 1..Len(ordEvents) : ordEvents[i].order_id = 1 /\ ordEvents[i].topic = "order.created"

\* the processPayment call of slot s found no payment of its order and is
\* over: it returned the status it decided, or threw
EndedNewCall(s) ==
    /\ call[s].pc = "idle"
    /\ call[s].order_id # 0
    /\ \/ call[s].res = "error"
       \/ call[s].res \in TerminalStatuses /\ call[s].row # 0

LinesOf(id) == {l \in orderItems : l.order_id = id}

RECURSIVE SumSubtotals(_)
SumSubtotals(rows) ==
    IF rows = {} THEN 0
    ELSE LET l == CHOOSE x \in rows : TRUE
         IN l.subtotal + SumSubtotals(rows \ {l})

\* C19: every order createOrder committed has a total equal to the sum of
\* the subtotals of its order_items rows, every such row's subtotal is its
\* unit price times its quantity, the unit price being the product's
\* price, and the order is in status pending.
C19_TotalIsSumOfSubtotals ==
    \A o \in orders :
        /\ o.total = SumSubtotals(LinesOf(o.id))
        /\ LinesOf(o.id) # {}
        /\ \A l \in LinesOf(o.id) :
              /\ l.subtotal = l.unit_price * l.quantity
              /\ l.unit_price = Price(l.product_id)
        /\ o.status = "pending"

\* an order of two lines, one of them for two units
C19_Witness ==
    \E o \in orders :
        /\ Cardinality(LinesOf(o.id)) = 2
        /\ \E l \in LinesOf(o.id) : l.quantity = 2

\* C20: while a processPayment call publishes payment.attempted and waits
\* out the processing delay, the row it inserted is committed, in status
\* processing.
C20_NoTransactionAcrossPublishAndWait ==
    \A s \in Slots :
        (call[s].pc \in {"inserted", "attempted"})
            => \E p \in payments : p.id = call[s].row /\ p.status = "processing"

TerminalTopics == {"payment.succeeded", "payment.failed"}

\* the published events of the payment.* topics
PaidEvents == BagToSet(payEvents)

\* every run that inserted a row and returned its outcome published the
\* terminal event of that outcome, and the order has no other
ReturnedRunsPublishedOnce ==
    \A s \in Slots :
        (call[s].pc = "idle" /\ call[s].row # 0 /\ call[s].res \in TerminalStatuses)
            => /\ Published(TerminalTopic(call[s].res), call[s].order_id) = 1
               /\ Terminals(call[s].order_id) = 1

CallStarts(s) ==
    /\ call[s].pc = "idle"
    /\ IF s = "k" THEN offset' # offset \/ call'[s] # call[s]
       ELSE httpCalls' # httpCalls

\* C22: a processPayment call that finds a committed payments row of its
\* order returns the status of such a row in the same step: it inserts and
\* updates no row, draws no payment id, publishes nothing and does not
\* enter the publish, wait and decision steps.
C22_ExistingRowShortCircuits ==
    [][\A s \in Slots :
          (/\ CallStarts(s)
           /\ RowsOf(call'[s].order_id) # {}
           /\ call'[s].res \notin {"400", "invalid"})
             => /\ call'[s].pc = "idle"
                /\ call'[s].res \in {p.status : p \in RowsOf(call'[s].order_id)}
                /\ payments' = payments
                /\ paySeq' = paySeq
                /\ payEvents' = payEvents
                /\ lostSends' = lostSends]_vars

\* the consumer was handed the order.created event of an order that a
\* POST /process-payment call had paid, and returned the row's status
C22_Witness ==
    /\ call["k"].pc = "idle"
    /\ call["k"].row = 0
    /\ call["k"].res \in TerminalStatuses
    /\ offset = 2
    /\ paySeq = 1
    /\ call["h"].row = 1
    /\ call["h"].order_id = call["k"].order_id

\* a payment attempt was made for order o: a row was inserted and the
\* publish of payment.attempted was reached
Attempted(o) ==
    \/ RowsOf(o) # {}
    \/ Published("payment.attempted", o) >= 1
    \/ <<"payment.attempted", o>> \in lostSends
    \/ \E s \in Slots : call[s].pc # "idle" /\ call[s].order_id = o

\* C23: for every order.created event the payments consumer has consumed,
\* an event with total 0 included, processPayment was called: a payment
\* attempt of the event's order was made.
C23_NoEventDropped ==
    \A i \in 1..(offset - 1) :
        (i <= Len(topicLog) /\ topicLog[i].json) => Attempted(topicLog[i].order_id)

\* C24: the stock of a product changes only in the commit of a createOrder
\* transaction.
C24_OnlyCreateOrderWritesStock ==
    [][(stock' # stock)
          => \E r \in Requests : req[r].pc = "writing" /\ req'[r].pc = "committed"]_vars

\* the payments rows inside open transactions, as their INSERT wrote them
OpenRows ==
    {[id |-> call[s].row, order_id |-> call[s].order_id, amount |-> call[s].amount,
      status |-> call[s].status, transaction_id |-> call[s].txid,
      failure_reason |-> "null"] : s \in {t \in Slots : call[t].pc \in {"inserted", "attempted"}}}

RowInvariant(p) ==
    /\ p.status \in {"processing", "succeeded", "failed"}
    /\ (p.transaction_id = NoTxn) <=> (p.status = "processing")
    /\ (p.status = "succeeded") => (p.failure_reason = "null")
    /\ (p.status = "failed") => (p.failure_reason # "null")

AllRowsValid == \A p \in payments \cup OpenRows : RowInvariant(p)

\* C25: every payments row, committed or inside an open transaction, has a
\* null transaction id exactly when it is in status processing, a null
\* failure reason when succeeded and a non-null one when failed; a row in
\* status succeeded or failed is never changed or removed.
C25_PaymentRowInvariants ==
    [][/\ AllRowsValid'
       /\ \A p \in payments : p.status \in TerminalStatuses => p \in payments']_vars

\* one payment succeeded and another failed
C25_Witness ==
    /\ \E p \in payments : p.status = "succeeded"
    /\ \E p \in payments : p.status = "failed"

\* C26: every event published about an order carries the string form of
\* the order's id as its partition key.
C26_KeyIsOrderId ==
    /\ \A e \in PaidEvents : e.key = StringOf(e.order_id)
    /\ \A i \in 1..Len(ordEvents) : ordEvents[i].key = StringOf(ordEvents[i].order_id)

\* bodies the precondition of createOrder excludes: no items, an item
\* without a product id, or an item whose quantity is missing or not positive
InvalidBody(items) ==
    \/ Len(items) = 0
    \/ \E i \in 1..Len(items) : items[i].product_id = 0 \/ items[i].quantity <= 0

ValidationErrors == {"400_empty", "400_item", "400_qty"}

\* C27: a createOrder request with an empty item list, an item without a
\* product id or an item of quantity <= 0 is answered with a validation
\* error before BEGIN: it never opens a transaction, and the step that
\* rejects it changes no table and publishes nothing.
C27_InvalidBodyRejectedBeforeBegin ==
    /\ \A items \in Bodies : InvalidBody(items) <=> Validate(items) \in ValidationErrors
    /\ [][\A r \in Requests :
            req[r].pc = "idle" /\ req'[r].pc # "idle" =>
                \/ req'[r].pc = "begun" /\ ~InvalidBody(req'[r].items)
                \/ /\ req'[r].pc = "done"
                   /\ req'[r].resp \in ValidationErrors
                   /\ req'[r].dec = NoDec /\ req'[r].lines = <<>> /\ req'[r].order = 0
                   /\ UNCHANGED <<stock, orders, orderItems, orderSeq, ordEvents>>]_vars

\* two requests were rejected by validation, one for a quantity <= 0 and
\* one for an item without product id, and the tables are as they started
C27_Witness ==
    /\ \E r, q \in Requests : req[r].resp = "400_qty" /\ req[q].resp = "400_item"
    /\ orders = {} /\ orderItems = {} /\ ordEvents = <<>>

\* C28: once a payments row is committed in a terminal status, the event
\* of that status is eventually published for the row's order, also when
\* the publish after the COMMIT failed or the message is delivered again.
C28_TerminalEventEventuallyPublished ==
    \A o \in PayOrders : \A st \in TerminalStatuses :
        (\E p \in payments : p.order_id = o /\ p.status = st)
            ~> (\E e \in PaidEvents : e.topic = TerminalTopic(st) /\ e.order_id = o)

\* C29: a processPayment call that throws before COMMIT (the publish of
\* payment.attempted fails, or a later statement does) ends with the error
\* and leaves no payments row of the order behind; a later call for an
\* order without a row inserts a new processing row and runs the attempt
\* from its first step.
C29_ThrowBeforeCommitRollsBack ==
    [][\A s \in Slots :
          /\ (call[s].pc \in {"inserted", "attempted"} /\ call'[s].pc = "idle") =>
                /\ call'[s].res = "error"
                /\ payments' = payments
                /\ {p \in payments' : p.order_id = call[s].order_id} = {}
          /\ (/\ call[s].pc = "idle" /\ call[s].res = "error"
              /\ httpCalls' = httpCalls + 1
              /\ call'[s].res # "400"
              /\ {p \in payments : p.order_id = call'[s].order_id} = {}) =>
                /\ call'[s].pc = "inserted"
                /\ call'[s].status = "processing"
                /\ call'[s].row = paySeq + 1]_vars

\* the publish of payment.attempted failed for order 1, no row of order 1
\* is stored, and a second call for order 1 has inserted its row again
C29_Witness ==
    /\ <<"payment.attempted", 1>> \in lostSends
    /\ RowsOf(1) = {}
    /\ call["h"].pc = "inserted" /\ call["h"].order_id = 1
    /\ httpCalls = 2

\* C30: a createOrder request is answered 201 exactly when its transaction
\* committed: no request whose order row is stored got an error.
C30_CreatedIffCommitted ==
    \A r \in Requests :
        req[r].pc = "done" =>
            (req[r].resp = "201" <=> \E o \in orders : o.id = req[r].order)

\* the sum of the quantities of a set of order_items rows
RECURSIVE SumQuantity(_)
SumQuantity(rows) ==
    IF rows = {} THEN 0
    ELSE LET l == CHOOSE x \in rows : TRUE IN l.quantity + SumQuantity(rows \ {l})

\* the units of product p the stored order_items rows sold
Sold(p) == SumQuantity({l \in orderItems : l.product_id = p})

\* stock on hand plus stock sold
Conserved(p) == stock[p] + Sold(p)

\* C31: with createOrder as the only writer of stock, for every product
\* the initial stock minus the current stock is the sum of the quantities
\* of the product over the order_items rows of committed orders: nothing
\* is sold at the start, every stored line belongs to a stored order, and
\* no step changes stock plus sold.
C31_StockConservation ==
    /\ \A p \in Products : Sold(p) = 0
    /\ [][/\ \A p \in Products : Conserved(p)' = Conserved(p)
          /\ \A l \in orderItems' : \E o \in orders' : o.id = l.order_id]_vars

\* two orders for the same product were committed by interleaved requests
C31_Witness ==
    /\ Cardinality(orders) = 2
    /\ \E p \in Products : Sold(p) >= 2
    /\ \E r \in Requests : req[r].resp = "201" /\ \E p \in Products : req[r].snap[p] > stock[p]

\* the positions of the order.created events in the orders service's topic log
CreatedEvents == {i \in 1..Len(ordEvents) : ordEvents[i].topic = "order.created"}

\* C32: every order.created event published by createOrder names an order
\* whose transaction committed, no order has two order.created events, and
\* a createOrder that rolled back has published none.
C32_CreatedEventsOfCommittedOrders ==
    /\ \A i \in CreatedEvents : \E o \in orders : o.id = ordEvents[i].order_id
    /\ \A i, j \in CreatedEvents : ordEvents[i].order_id = ordEvents[j].order_id => i = j
    /\ \A r \in Requests :
          (req[r].pc = "done" /\ ~\E o \in orders : o.id = req[r].order)
             => \A i \in CreatedEvents : ordEvents[i].order_id # req[r].order

\* one request committed and published its event; the other was rolled back
\* after its order row was inserted, and has no event
C32_Witness ==
    \E r, q \in Requests :
        /\ req[r].resp = "201"
        /\ \E i \in CreatedEvents : ordEvents[i].order_id = req[r].order
        /\ req[q].pc = "done" /\ req[q].order # 0
        /\ ~\E o \in orders : o.id = req[q].order
        /\ Cardinality(CreatedEvents) = 1

\* C33: every order.created message the broker acknowledged is eventually
\* handed to the payments-group handler, whether it was published before
\* the consumer first subscribed or while the process was down.
C33_PublishedIsEventuallyHandled ==
    \A i \in 1..MaxPublishes : (Len(brokerLog) >= i) ~> (i \in handled)

\* subscribe returned null to startOrderConsumer
GaveUp == sub.pc = "done" /\ sub.result = "null"

\* the route POST /process-payment accepts a request
ServesHttp == ENABLED HttpCall("h", "1", 100)

C36_SendOnlyWhenConnected ==
    \A c \in Callers :
        (pub[c].pc = "sending" \/ pub[c].sends > 0) => pub[c].producerWas = "connected"

\* the subscribe call ended an attempt in this step
AttemptEnds == sub.pc = "trying" /\ sub'.pc # "trying"

\* C35: subscribe schedules a retry only after a topic-not-ready error; any
\* other error ends the call with a throw on the attempt that raised it,
\* without a backoff; and an attempt on a ready topic can succeed whether
\* or not the topic check of ensureTopicExists worked.
C35_RetriesOnlyOnTopicErrors ==
    [][/\ AttemptEnds =>
            /\ sub'.pc = "waiting" => sub'.error \in TopicErrors
            /\ (sub'.error \in OtherErrors)
                  => /\ sub'.pc = "done" /\ sub'.result = "throw"
                     /\ sub'.delays = sub.delays /\ sub'.retryCount = sub.retryCount
            /\ (sub'.result = "throw") => sub'.error \in OtherErrors
       /\ (sub.pc = "trying" /\ topicState = "ready")
             => ENABLED SubscribeAttempt(FALSE, "none")]_vars

\* the broker was unreachable on the first attempt: subscribe threw at once
C35_Witness ==
    /\ sub.pc = "done" /\ sub.result = "throw"
    /\ sub.error = "ECONNREFUSED"
    /\ sub.retryCount = 0 /\ sub.delays = <<>>

\* C37: when a subscribe call has ended with a consumer or with null, at
\* most one consumer that the call created is still connected.
C37_AtMostOneConsumerConnected ==
    (sub.pc = "done" /\ sub.result \in {"consumer", "null"}) => consumers <= 1

\* a client that was taken from the pool, not yet released, with pending
\* work of the handler
Held(c) == c.acquired = 1 /\ c.released = 0

\* a handler that ended: whatever client it took was released once, after
\* its transaction was ended
Settled(c) ==
    /\ c.released = c.acquired
    /\ c.acquired = 1 => c.tx = "ended"

\* C38: on every path of createOrder and processPayment the client taken
\* from the pool is released exactly once, and never while the
\* transaction begun on it is open: a handler in flight holds its client
\* unreleased, a handler that ended has released it once after a COMMIT or
\* ROLLBACK, and every path that got past validation took a client.
C38_ClientReleasedOnceAfterTransaction ==
    /\ \A r \in Requests :
          /\ ~ordClient[r].openAtRelease
          /\ req[r].pc \in {"begun", "writing", "committed"} => Held(ordClient[r])
          /\ req[r].pc \in {"begun", "writing"} => ordClient[r].tx = "open"
          /\ req[r].pc = "done" => Settled(ordClient[r])
          /\ (req[r].pc = "done" /\ req[r].resp \notin {"400_empty", "400_item", "400_qty"})
                => ordClient[r].released = 1
    /\ \A s \in Slots :
          /\ ~payClient[s].openAtRelease
          /\ call[s].pc \in {"inserted", "attempted", "committed"} => Held(payClient[s])
          /\ call[s].pc \in {"inserted", "attempted"} => payClient[s].tx = "open"
          /\ call[s].pc = "idle" => Settled(payClient[s])
          /\ (call[s].pc = "idle" /\ call[s].res \in TerminalStatuses \cup {"error"})
                => payClient[s].released = 1

\* one order was created, one request ended with 500, and a
\* processPayment call threw: each released its client once
C38_Witness ==
    /\ \E r, q \in Requests :
          /\ req[r].resp = "201" /\ ordClient[r].released = 1
          /\ req[q].resp = "500" /\ ordClient[q].released = 1
    /\ call["h"].pc = "idle" /\ call["h"].res = "error"
    /\ payClient["h"].released = 1 /\ payClient["h"].tx = "ended"

====
